---- MODULE Spec2Model ----
(***************************************************************************)
(* Model of bkp_exporter.py: main() loads a YAML configuration, builds a    *)
(* BkpCollector, registers it and starts the HTTP server; every scrape      *)
(* runs the generator BkpCollector.collect() over the configured folders.   *)
(*                                                                          *)
(* Text (file names, paths, label values) is a sequence of one-character    *)
(* strings, so that strip(), os.path.join() and the regular-expression      *)
(* groups are computed character by character.  Python dicts whose          *)
(* iteration order matters (conf['locations'], self._paths) are sequences   *)
(* of <<key, value>> pairs in iteration order: the order is that of the     *)
(* keys' hashes, which the interpreter's hash seed fixes for one run, the   *)
(* same for both dicts and whatever the order the keys were written in.     *)
(* The other dicts are functions.                                           *)
(***************************************************************************)
EXTENDS Integers, Sequences, FiniteSets, TLC

\* ------------------------------------------------------------------ bounds
\* collect() invocations started in one run of the program
MaxScrapes == 2
\* file-level changes (create, remove, rewrite a file) in one run
MaxFsOps == 1

\* ------------------------------------------------------------------- text
Whitespace == {" "}

RECURSIVE lstrip(_)
lstrip(s) == IF s # <<>> /\ Head(s) \in Whitespace THEN lstrip(Tail(s)) ELSE s

RECURSIVE rstrip(_)
rstrip(s) ==
  IF s # <<>> /\ s[Len(s)] \in Whitespace
  THEN rstrip(SubSeq(s, 1, Len(s) - 1))
  ELSE s

\* str.strip() of line 69
strip(s) == rstrip(lstrip(s))

\* os.path.join(path, file) of line 66, for a relative entry name
path_join(path, file) ==
  IF path = <<>> \/ path[Len(path)] = "/"
  THEN path \o file
  ELSE path \o <<"/">> \o file

\* sorted() over label names (lines 79, 80, 83, 84): the label names in use,
\* in the order Python's string comparison gives them
LabelOrder == <<"date", "file", "filepath", "location", "site">>

sorted_names(names) == SelectSeq(LabelOrder, LAMBDA n : n \in names)

\* --------------------------------------------------- regular expressions
\* A format of the configuration is a sequence of group specifications
\* g1 .. gk and stands for the pattern  G1_G2_..._Gk  where Gi is
\* ([^_]*) for i < k and (.*) for i = k, written (?P<name>...) when gi is a
\* name and as an unnamed group when gi = "".  The specification "("
\* stands for an unbalanced parenthesis: such a pattern does not compile.
Unbalanced == "("

\* re.compile("^"+format+"$") (line 96): .groups and .groupindex
re_compile(format) ==
  IF \E i \in 1..Len(format) : format[i] = Unbalanced
  THEN [ok |-> FALSE, spec |-> format, groups |-> 0, groupindex |-> <<>>]
  ELSE [ok |-> TRUE,
        spec |-> format,
        groups |-> Len(format),
        groupindex |->
          [n \in {format[i] : i \in {j \in 1..Len(format) : format[j] # ""}} |->
             CHOOSE i \in 1..Len(format) : format[i] = n]]

\* re.compile("^(.*)$") (line 96), the default format
DefaultFormat == <<"">>

FirstSep(s) ==
  IF \E i \in 1..Len(s) : s[i] = "_"
  THEN CHOOSE i \in 1..Len(s) : s[i] = "_" /\ \A j \in 1..(i - 1) : s[j] # "_"
  ELSE 0

\* the group values of the anchored match of k groups against s, or
\* ok = FALSE when s has fewer than k - 1 separators
RECURSIVE match_groups(_, _)
match_groups(k, s) ==
  IF k <= 1
  THEN [ok |-> TRUE, groups |-> <<s>>]
  ELSE IF FirstSep(s) = 0
       THEN [ok |-> FALSE, groups |-> <<>>]
       ELSE LET i == FirstSep(s)
                rest == match_groups(k - 1, SubSeq(s, i + 1, Len(s)))
            IN  [ok |-> rest.ok,
                 groups |-> IF rest.ok
                            THEN <<SubSeq(s, 1, i - 1)>> \o rest.groups
                            ELSE <<>>]

\* format.match(file) (line 62)
re_match(format, file) == match_groups(format.groups, file)

\* line 60: the set that next() draws its first element from
UnnamedGroups(format) ==
  {i \in 1..format.groups : i \notin {format.groupindex[n] : n \in DOMAIN format.groupindex}}

Min(S) == CHOOSE x \in S : \A y \in S : x <= y

Range(s) == {s[i] : i \in 1..Len(s)}

\* ---------------------------------------------------------- configuration
\* A dict without entries
EmptyDict == [k \in {} |-> k]

\* location names
LocA == <<"A">>
LocB == <<"B">>

\* the orders in which a dict with the keys 'A' and 'B' is iterated: the
\* order of the keys' hashes, not the order of insertion.  The hash of a
\* string depends on the interpreter's hash seed, so either order occurs,
\* the same for every dict of one process.
HashOrders == {<<LocA, LocB>>, <<LocB, LocA>>}

\* conf['locations'] is a dict of the same process: its entries are
\* iterated (line 91) in the order hash_order gives their keys
conf_order(locs, hash_order) ==
  \A i, j \in 1..Len(locs) :
    i < j => \E a, b \in 1..Len(hash_order) :
               a < b /\ hash_order[a] = locs[i][1] /\ hash_order[b] = locs[j][1]

\* self._paths[k] = v (line 97) on the dict held in iteration order
paths_put(paths, k, v, hash_order) ==
  LET keys == SelectSeq(hash_order,
                        LAMBDA n : n = k \/ \E p \in Range(paths) : p[1] = n)
  IN  [i \in 1..Len(keys) |->
         IF keys[i] = k
         THEN <<k, v>>
         ELSE CHOOSE p \in Range(paths) : p[1] = keys[i]]

\* lines 92-95: the two tests on one entry of conf['locations']; exc is
\* the exception raised ("none" when the entry passes)
check_location_no_exists(loc_name, loc_conf, dirs) ==
  IF "path" \notin DOMAIN loc_conf
  THEN [exc |-> "ExporterError",
        msg |-> <<"no path defined for the section", loc_name>>]
  ELSE [exc |-> "none", msg |-> <<>>]

check_location(loc_name, loc_conf, dirs) ==
  IF "path" \notin DOMAIN loc_conf
  THEN [exc |-> "ExporterError",
        msg |-> <<"no path defined for the section", loc_name>>]
  ELSE IF loc_conf.path \notin dirs
  THEN [exc |-> "ExporterError",
        msg |-> <<"folder doesn't exists", loc_conf.path>>]
  ELSE [exc |-> "none", msg |-> <<>>]

\* lines 91-97: the loop over conf['locations'], locs the entries still to
\* visit and paths the entries of self._paths written so far.  exc is the
\* exception that leaves the loop ("none" when it runs to its end).
RECURSIVE parse_locations(_, _, _, _)
parse_locations(locs, paths, dirs, hash_order) ==
  IF locs = <<>>
  THEN [exc |-> "none", msg |-> <<>>, paths |-> paths]
  ELSE LET loc_name == locs[1][1]
           loc_conf == locs[1][2]
           chk == check_location(loc_name, loc_conf, dirs)
       IN  IF chk.exc # "none"
           THEN [exc |-> chk.exc, msg |-> chk.msg, paths |-> paths]
           ELSE LET loc_format ==
                      re_compile(IF "format" \in DOMAIN loc_conf
                                 THEN loc_conf.format
                                 ELSE DefaultFormat)
                IN  IF ~loc_format.ok
                    THEN [exc |-> "re.error", msg |-> <<>>, paths |-> paths]
                    ELSE parse_locations(
                           Tail(locs),
                           paths_put(paths, loc_name,
                                     <<loc_conf.path, loc_format>>, hash_order),
                           dirs, hash_order)

\* lines 98-102: self._rewrites
parse_rewrites(conf) ==
  IF "rewrite" \in DOMAIN conf
  THEN [v \in {w \in DOMAIN conf.rewrite : DOMAIN conf.rewrite[w] # {}} |->
          conf.rewrite[v]]
  ELSE EmptyDict

\* BkpCollector(yaml.load(cfg_content)) (lines 41-52, 88-102, 129): yaml is
\* what yaml.load makes of the file (a mapping, None for an empty document,
\* or a parse error), dirs the folders that exist.
parse_conf(yaml, dirs, hash_order) ==
  IF yaml.kind = "malformed"
  THEN [exc |-> "YAMLError", msg |-> <<>>, paths |-> <<>>, rewrites |-> EmptyDict]
  ELSE IF yaml.kind = "none"
  THEN [exc |-> "TypeError", msg |-> <<>>, paths |-> <<>>, rewrites |-> EmptyDict]
  ELSE IF "locations" \notin DOMAIN yaml.conf \/ yaml.conf.locations = <<>>
  THEN [exc |-> "ExporterError", msg |-> <<"no location defined", <<>>>>,
        paths |-> <<>>, rewrites |-> EmptyDict]
  ELSE LET r == parse_locations(yaml.conf.locations, <<>>, dirs, hash_order)
       IN  IF r.exc # "none"
           THEN [exc |-> r.exc, msg |-> r.msg, paths |-> r.paths,
                 rewrites |-> EmptyDict]
           ELSE [exc |-> "none", msg |-> <<>>, paths |-> r.paths,
                 rewrites |-> parse_rewrites(yaml.conf)]

\* ------------------------------------------------------------ exit status
\* What the process ends with when exception exc leaves the try block of
\* main() (lines 134-143) and then the one of the script (lines 151-166).
\* KeyboardInterrupt: main returns 0.  ExporterError: the message goes to
\* standard error and main returns 1.  SystemExit: raised again by main,
\* passed by the script, exit_code keeps its initial 2.  Any other exception
\* matches no except clause of either try block: it leaves the script before
\* line 164, and the interpreter prints the traceback and ends with status 1.
Terminate(exc, msg) ==
  CASE exc = "KeyboardInterrupt" ->
         [exit_code |-> 0, stderr |-> <<>>, bye |-> TRUE]
    [] exc = "ExporterError" ->
         [exit_code |-> 1, stderr |-> <<msg>>, bye |-> TRUE]
    [] exc = "SystemExit" ->
         [exit_code |-> 2, stderr |-> <<>>, bye |-> TRUE]
    [] OTHER ->
         [exit_code |-> 1, stderr |-> <<<<"Traceback", <<>>>>>>, bye |-> FALSE]

\* ------------------------------------------------------------- the inputs
\* folders: D1 and D2 exist, DX does not
D1 == <<"/", "d">>
D2 == <<"/", "e", "/">>
DX == <<"/", "x">>

\* entry names
F_na == <<"n", "_", "a">>
F_sb == <<" ", "_", "b">>
F_a == <<"a">>

Names == {F_a, F_na, F_sb}

\* os.listdir() returns the entries "in arbitrary order": the order is the
\* file system's own, so a listing may follow any order of the names
Orders ==
  {o \in [1..Cardinality(Names) -> Names] :
     \A i, j \in 1..Cardinality(Names) : o[i] = o[j] => i = j}

Stat1 == [mtime |-> 1, size |-> 10]
Stat2 == [mtime |-> 2, size |-> 20]
Stats == {Stat1, Stat2}

InitFs ==
  (D1 :> (F_na :> Stat1 @@ F_sb :> Stat1 @@ F_a :> Stat1)) @@
  (D2 :> (F_na :> Stat1))

\* entries of conf['locations']
A_site == <<LocA, [path |-> D1, format |-> <<"site", "">>]>>
A_default == <<LocA, [path |-> D1]>>
A_nopath == <<LocA, [format |-> <<"site", "">>]>>
A_missing == <<LocA, [path |-> DX]>>
A_named == <<LocA, [path |-> D1, format |-> <<"site">>]>>
A_location == <<LocA, [path |-> D1, format |-> <<"location", "">>]>>
A_file == <<LocA, [path |-> D1, format |-> <<"file", "">>]>>
A_bad == <<LocA, [path |-> D1, format |-> <<Unbalanced>>]>>
B_rev == <<LocB, [path |-> D2, format |-> <<"", "site">>]>>
B_default == <<LocB, [path |-> D2]>>
B_missing == <<LocB, [path |-> DX, format |-> <<"", "site">>]>>
B_nopath == <<LocB, [format |-> <<"", "site">>]>>

\* conf['rewrite']: a table for site, an empty one for date, and tables
\* named like the three fixed labels
Rewrite1 ==
  [site |-> (<<"n">> :> <<"N", "Y">>),
   date |-> EmptyDict,
   file |-> (<<"a">> :> <<"Z">> @@ <<"n">> :> <<"Z">>),
   location |-> (LocA :> <<"Z">> @@ <<"n">> :> <<"Z">>),
   filepath |-> (path_join(D1, F_na) :> <<"Z">>)]

LocationLists ==
  {<<>>,
   <<A_site>>, <<A_default>>, <<A_nopath>>, <<A_missing>>, <<A_named>>,
   <<A_location>>, <<A_file>>, <<A_bad>>, <<B_rev>>,
   <<A_site, B_rev>>, <<B_default, A_site>>, <<A_named, B_rev>>,
   <<A_site, B_missing>>, <<B_nopath, A_site>>, <<A_bad, B_nopath>>,
   <<A_missing, B_nopath>>}

\* the location lists that come with a rewrite section as well
RewriteLists ==
  {<<>>, <<A_site>>, <<A_location>>, <<A_file>>, <<A_site, B_rev>>, <<A_missing>>}

\* what yaml.load returns
Yamls ==
  {[kind |-> "malformed", conf |-> EmptyDict],
   [kind |-> "none", conf |-> EmptyDict],
   [kind |-> "dict", conf |-> EmptyDict],
   [kind |-> "dict", conf |-> [rewrite |-> Rewrite1]]}
  \cup {[kind |-> "dict", conf |-> [locations |-> l]] : l \in LocationLists}
  \cup {[kind |-> "dict", conf |-> [locations |-> l, rewrite |-> Rewrite1]] :
          l \in RewriteLists}

\* the environments with the given files: whether the configuration file
\* exists, what it holds, whether the port can be bound, and the order the
\* interpreter's hash gives the location names, which is the order the
\* locations of the file are iterated in
EnvsOf(exists, yamls) ==
  {e \in [config_file_exists : exists, yaml : yamls, port_free : BOOLEAN,
          hash_order : HashOrders] :
     "locations" \in DOMAIN e.yaml.conf
       => conf_order(e.yaml.conf.locations, e.hash_order)}

Envs == EnvsOf(BOOLEAN, Yamls)

\* ------------------------------------------------------------------ state
Threads == {1, 2}

VARIABLES
  env,          \* the environment of the run
  fs,           \* folder -> entry name -> [mtime, size]
  fsOps,        \* file-level changes so far
  mpc,          \* where main() is
  raised,       \* the exception that ended main(), "none" if none
  exit,         \* [exit_code, stderr, bye] once the process has ended
  constructed,  \* BkpCollector.__init__ returned
  registered,   \* REGISTRY.register(collector) returned
  http_started, \* start_http_server(port) returned
  paths,        \* self._paths
  rewrites,     \* self._rewrites
  ts_metrics,   \* self._ts_metrics: frozen_tags -> family
  sz_metrics,   \* self._sz_metrics: frozen_tags -> family
  gen,          \* thread -> the frame of its collect() generator
  out,          \* thread -> the families its collect() has yielded, as the
                \* consumer read them at the yield
  scrapes,      \* collect() invocations started
  prev          \* the last finished collect(): its output and when it began

vars ==
  <<env, fs, fsOps, mpc, raised, exit, constructed, registered, http_started,
    paths, rewrites, ts_metrics, sz_metrics, gen, out, scrapes, prev>>

mainVars == <<mpc, raised, exit, constructed, registered, http_started>>
collectorVars == <<paths, rewrites, ts_metrics, sz_metrics>>

Running == [exit_code |-> -1, stderr |-> <<>>, bye |-> FALSE]

IdleGen ==
  [pc |-> "idle", li |-> 0, content_group_index |-> 0, listing |-> <<>>,
   file |-> <<>>, filepath |-> <<>>, frozen_tags |-> {},
   modif_time |-> 0, file_size |-> 0, exc |-> "none", stopped |-> FALSE,
   epoch0 |-> 0, listed |-> {}, matched |-> <<>>]

NoPrev == [valid |-> FALSE, out |-> <<>>, epoch |-> 0]

InitWith(E) ==
  /\ env \in E
  /\ fs = InitFs
  /\ fsOps = 0
  /\ mpc = "check_file"
  /\ raised = "none"
  /\ exit = Running
  /\ constructed = FALSE
  /\ registered = FALSE
  /\ http_started = FALSE
  /\ paths = <<>>
  /\ rewrites = EmptyDict
  /\ ts_metrics = EmptyDict
  /\ sz_metrics = EmptyDict
  /\ gen = [t \in Threads |-> IdleGen]
  /\ out = [t \in Threads |-> <<>>]
  /\ scrapes = 0
  /\ prev = NoPrev

Init == InitWith(Envs)

\* ----------------------------------------------------------------- main()
\* An exception leaves main(): the process ends (os._exit at line 166, or
\* the interpreter's own exit), and with it the threads and the collector.
Die(exc, msg) ==
  /\ mpc' = "exited"
  /\ raised' = exc
  /\ exit' = Terminate(exc, msg)
  /\ gen' = [t \in Threads |-> IdleGen]
  /\ out' = [t \in Threads |-> <<>>]
  /\ ts_metrics' = EmptyDict
  /\ sz_metrics' = EmptyDict
  /\ prev' = NoPrev
  /\ UNCHANGED <<env, fs, fsOps, constructed, registered, http_started,
                 paths, rewrites, scrapes>>

\* lines 123-124
MainCheckFile ==
  /\ mpc = "check_file"
  /\ IF ~env.config_file_exists
     THEN Die("ExporterError", <<"Unable to load config file", <<>>>>)
     ELSE /\ mpc' = "construct"
          /\ UNCHANGED <<env, fs, fsOps, raised, exit, constructed, registered,
                         http_started, paths, rewrites, ts_metrics, sz_metrics,
                         gen, out, scrapes, prev>>

\* lines 126-129
MainConstruct ==
  /\ mpc = "construct"
  /\ LET r == parse_conf(env.yaml, DOMAIN fs, env.hash_order)
     IN  IF r.exc # "none"
         THEN Die(r.exc, r.msg)
         ELSE /\ mpc' = "register"
              /\ constructed' = TRUE
              /\ paths' = r.paths
              /\ rewrites' = r.rewrites
              /\ UNCHANGED <<env, fs, fsOps, raised, exit, registered,
                             http_started, ts_metrics, sz_metrics, gen, out,
                             scrapes, prev>>

\* line 130 (the scrapes of the model begin once the server runs)
MainRegister ==
  /\ mpc = "register"
  /\ mpc' = "start_http"
  /\ registered' = TRUE
  /\ UNCHANGED <<env, fs, fsOps, raised, exit, constructed, http_started,
                 paths, rewrites, ts_metrics, sz_metrics, gen, out, scrapes,
                 prev>>

\* line 131: binding the port fails with socket.error when it is taken
MainStartHttp ==
  /\ mpc = "start_http"
  /\ IF ~env.port_free
     THEN Die("socket.error", <<>>)
     ELSE /\ mpc' = "serving"
          /\ http_started' = TRUE
          /\ UNCHANGED <<env, fs, fsOps, raised, exit, constructed, registered,
                         paths, rewrites, ts_metrics, sz_metrics, gen, out,
                         scrapes, prev>>

\* lines 134-136: Ctrl-C anywhere in the try block of main()
MainInterrupt ==
  /\ mpc # "exited"
  /\ Die("KeyboardInterrupt", <<>>)

\* ---------------------------------------------------------------- collect
\* d[k] = v on a dict held as its set of items
dict_set(d, k, v) == {p \in d : p[1] # k} \cup {<<k, v>>}

\* lines 72-73: the rewrite of one tag value
rewrite_value(rw, var_name, tag_value) ==
  IF var_name \in DOMAIN rw /\ tag_value \in DOMAIN rw[var_name]
  THEN rw[var_name][tag_value]
  ELSE tag_value

\* lines 68-74: the loop over format.groupindex, names the groups still to
\* visit (group names are distinct, so the order is immaterial)
RECURSIVE named_tags(_, _, _, _, _)
named_tags(names, format, groups, rw, tags) ==
  IF names = {}
  THEN tags
  ELSE LET var_name == CHOOSE n \in names : TRUE
           tag_value == strip(groups[format.groupindex[var_name]])
           rest == names \ {var_name}
       IN  IF tag_value = <<>>
           THEN named_tags(rest, format, groups, rw, tags)
           ELSE named_tags(rest, format, groups, rw,
                           dict_set(tags, var_name,
                                    rewrite_value(rw, var_name, tag_value)))

\* lines 65-77: frozen_tags of a matched entry
frozen_tags_of(path_name, path, format, cgi, file, groups, rw) ==
  LET value == groups[cgi]
      filepath == path_join(path, file)
      tags0 == {<<"location", path_name>>}
      tags1 == named_tags(DOMAIN format.groupindex, format, groups, rw, tags0)
  IN  dict_set(dict_set(tags1, "file", value), "filepath", filepath)

\* os.listdir(path) (line 61): the entries of the folder in the order the
\* file system gives its names
listdir_all(dir, order) == order

listdir(dir, order) == SelectSeq(order, LAMBDA f : f \in DOMAIN dir)

\* GaugeMetricFamily(name, documentation, labels=sorted(...)) (lines 79-80)
NewFamily(name, documentation, frozen_tags) ==
  [name |-> name,
   documentation |-> documentation,
   labels |-> sorted_names({x[1] : x \in frozen_tags}),
   samples |-> <<>>]

\* family.add_metric([x[1] for x in sorted(frozen_tags, key=...)], value)
\* (lines 83-84): one more sample, its label values zipped with the
\* family's label names
add_metric(family, frozen_tags, value) ==
  LET names == sorted_names({x[1] : x \in frozen_tags})
      values == [i \in 1..Len(names) |->
                   (CHOOSE x \in frozen_tags : x[1] = names[i])[2]]
      labels == [i \in 1..Len(family.labels) |-> <<family.labels[i], values[i]>>]
  IN  [family EXCEPT !.samples =
         Append(@, [name |-> family.name, labels |-> labels, value |-> value])]

dict_put(d, k, v) == [x \in DOMAIN d \cup {k} |-> IF x = k THEN v ELSE d[x]]

G(t) == gen[t]

Serving == mpc = "serving"

\* the call of collect() by a scrape: the generator starts at line 59
Begin(t) ==
  /\ Serving
  /\ G(t).pc = "idle"
  /\ scrapes < MaxScrapes
  /\ scrapes' = scrapes + 1
  /\ gen' = [gen EXCEPT ![t] = [IdleGen EXCEPT !.pc = "loc", !.epoch0 = fsOps]]
  /\ out' = [out EXCEPT ![t] = <<>>]
  /\ UNCHANGED <<env, fs, fsOps, mainVars, collectorVars, prev>>

\* lines 59-61: the next location, its content group and its listing.  With
\* no unnamed group next() raises StopIteration inside the generator, which
\* ends the generator as if it had run to its end.
NextLocation(t) ==
  /\ Serving
  /\ G(t).pc = "loc"
  /\ LET i == G(t).li + 1
     IN  IF i > Len(paths)
         THEN gen' = [gen EXCEPT ![t].pc = "done"]
         ELSE LET path == paths[i][2][1]
                  format == paths[i][2][2]
              IN  IF UnnamedGroups(format) = {}
                  THEN gen' = [gen EXCEPT ![t].pc = "done",
                                          ![t].li = i,
                                          ![t].stopped = TRUE]
                  ELSE \E order \in Orders :
                         gen' = [gen EXCEPT
                                      ![t].pc = "file",
                                      ![t].li = i,
                                      ![t].content_group_index =
                                        Min(UnnamedGroups(format)),
                                      ![t].listing = listdir(fs[path], order),
                                      ![t].listed =
                                        @ \cup {path_join(path, f) :
                                                  f \in DOMAIN fs[path]}]
  /\ UNCHANGED <<env, fs, fsOps, mainVars, collectorVars, out, scrapes, prev>>

\* lines 61-77: the next entry of the listing, its match and its tags
NextFile(t) ==
  /\ Serving
  /\ G(t).pc = "file"
  /\ IF G(t).listing = <<>>
     THEN gen' = [gen EXCEPT ![t].pc = "loc"]
     ELSE LET file == Head(G(t).listing)
              path_name == paths[G(t).li][1]
              path == paths[G(t).li][2][1]
              format == paths[G(t).li][2][2]
              match == re_match(format, file)
          IN  IF ~match.ok
              THEN gen' = [gen EXCEPT ![t].listing = Tail(@)]
              ELSE gen' = [gen EXCEPT
                             ![t].pc = "test",
                             ![t].file = file,
                             ![t].filepath = path_join(path, file),
                             ![t].frozen_tags =
                               frozen_tags_of(path_name, path, format,
                                              G(t).content_group_index,
                                              file, match.groups, rewrites)]
  /\ UNCHANGED <<env, fs, fsOps, mainVars, collectorVars, out, scrapes, prev>>

\* line 78
TestFamily(t) ==
  /\ Serving
  /\ G(t).pc = "test"
  /\ gen' = [gen EXCEPT ![t].pc =
               IF G(t).frozen_tags \in DOMAIN ts_metrics THEN "mtime" ELSE "new_ts"]
  /\ UNCHANGED <<env, fs, fsOps, mainVars, collectorVars, out, scrapes, prev>>

\* line 79
NewTsFamily(t) ==
  /\ Serving
  /\ G(t).pc = "new_ts"
  /\ ts_metrics' =
       dict_put(ts_metrics, G(t).frozen_tags,
                NewFamily("backup_file_timestamp", "Backup file timestamp",
                          G(t).frozen_tags))
  /\ gen' = [gen EXCEPT ![t].pc = "new_sz"]
  /\ UNCHANGED <<env, fs, fsOps, mainVars, paths, rewrites, sz_metrics, out,
                 scrapes, prev>>

\* line 80
NewSzFamily(t) ==
  /\ Serving
  /\ G(t).pc = "new_sz"
  /\ sz_metrics' =
       dict_put(sz_metrics, G(t).frozen_tags,
                NewFamily("backup_file_size", "Backup file size",
                          G(t).frozen_tags))
  /\ gen' = [gen EXCEPT ![t].pc = "mtime"]
  /\ UNCHANGED <<env, fs, fsOps, mainVars, paths, rewrites, ts_metrics, out,
                 scrapes, prev>>

\* the stat of an entry of the current location: present or gone
Present(t) == G(t).file \in DOMAIN fs[paths[G(t).li][2][1]]

StatOf(t) == fs[paths[G(t).li][2][1]][G(t).file]

\* line 81: os.path.getmtime raises OSError for an entry that is gone, and
\* the exception leaves the generator
GetMtime(t) ==
  /\ Serving
  /\ G(t).pc = "mtime"
  /\ IF Present(t)
     THEN gen' = [gen EXCEPT ![t].pc = "size", ![t].modif_time = StatOf(t).mtime]
     ELSE gen' = [gen EXCEPT ![t].pc = "raised", ![t].exc = "OSError"]
  /\ UNCHANGED <<env, fs, fsOps, mainVars, collectorVars, out, scrapes, prev>>

\* line 82
GetSize(t) ==
  /\ Serving
  /\ G(t).pc = "size"
  /\ IF Present(t)
     THEN gen' = [gen EXCEPT ![t].pc = "add_ts", ![t].file_size = StatOf(t).size]
     ELSE gen' = [gen EXCEPT ![t].pc = "raised", ![t].exc = "OSError"]
  /\ UNCHANGED <<env, fs, fsOps, mainVars, collectorVars, out, scrapes, prev>>

\* line 83
AddTs(t) ==
  /\ Serving
  /\ G(t).pc = "add_ts"
  /\ ts_metrics' =
       [ts_metrics EXCEPT ![G(t).frozen_tags] =
          add_metric(@, G(t).frozen_tags, G(t).modif_time)]
  /\ gen' = [gen EXCEPT ![t].pc = "add_sz"]
  /\ UNCHANGED <<env, fs, fsOps, mainVars, paths, rewrites, sz_metrics, out,
                 scrapes, prev>>

\* line 84: the size family is missing when another collect() has passed
\* line 79 and not yet line 80, and the lookup raises KeyError
AddSz(t) ==
  /\ Serving
  /\ G(t).pc = "add_sz"
  /\ IF G(t).frozen_tags \in DOMAIN sz_metrics
     THEN /\ sz_metrics' =
               [sz_metrics EXCEPT ![G(t).frozen_tags] =
                  add_metric(@, G(t).frozen_tags, G(t).file_size)]
          /\ gen' = [gen EXCEPT ![t].pc = "yield_ts"]
     ELSE /\ gen' = [gen EXCEPT ![t].pc = "raised", ![t].exc = "KeyError"]
          /\ UNCHANGED sz_metrics
  /\ UNCHANGED <<env, fs, fsOps, mainVars, paths, rewrites, ts_metrics, out,
                 scrapes, prev>>

\* line 85: the consumer reads the samples of the family it is handed
YieldTs(t) ==
  /\ Serving
  /\ G(t).pc = "yield_ts"
  /\ out' = [out EXCEPT ![t] = Append(@, ts_metrics[G(t).frozen_tags])]
  /\ gen' = [gen EXCEPT ![t].pc = "yield_sz"]
  /\ UNCHANGED <<env, fs, fsOps, mainVars, collectorVars, scrapes, prev>>

\* line 86, and back to line 61
YieldSz(t) ==
  /\ Serving
  /\ G(t).pc = "yield_sz"
  /\ out' = [out EXCEPT ![t] = Append(@, sz_metrics[G(t).frozen_tags])]
  /\ gen' = [gen EXCEPT
               ![t].pc = "file",
               ![t].listing = Tail(@),
               ![t].matched = Append(@, <<G(t).li, G(t).file>>)]
  /\ UNCHANGED <<env, fs, fsOps, mainVars, collectorVars, scrapes, prev>>

\* the scrape ends: the generator is exhausted or has raised
Finish(t) ==
  /\ Serving
  /\ G(t).pc \in {"done", "raised"}
  /\ prev' = [valid |-> TRUE, out |-> out[t], epoch |-> G(t).epoch0]
  /\ gen' = [gen EXCEPT ![t] = IdleGen]
  /\ UNCHANGED <<env, fs, fsOps, mainVars, collectorVars, out, scrapes>>

Collect(t) ==
  \/ Begin(t)
  \/ NextLocation(t)
  \/ NextFile(t)
  \/ TestFamily(t)
  \/ NewTsFamily(t)
  \/ NewSzFamily(t)
  \/ GetMtime(t)
  \/ GetSize(t)
  \/ AddTs(t)
  \/ AddSz(t)
  \/ YieldTs(t)
  \/ YieldSz(t)
  \/ Finish(t)

\* ------------------------------------------------------- the file system
\* the backup jobs create, remove and rewrite files while the exporter runs
CreateFile ==
  /\ Serving
  /\ fsOps < MaxFsOps
  /\ \E d \in DOMAIN fs, f \in Names, st \in Stats :
       /\ f \notin DOMAIN fs[d]
       /\ fs' = [fs EXCEPT ![d] = dict_put(@, f, st)]
  /\ fsOps' = fsOps + 1
  /\ UNCHANGED <<env, mainVars, collectorVars, gen, out, scrapes, prev>>

RemoveFile ==
  /\ Serving
  /\ fsOps < MaxFsOps
  /\ \E d \in DOMAIN fs, f \in Names :
       /\ f \in DOMAIN fs[d]
       /\ fs' = [fs EXCEPT ![d] = [x \in DOMAIN @ \ {f} |-> @[x]]]
  /\ fsOps' = fsOps + 1
  /\ UNCHANGED <<env, mainVars, collectorVars, gen, out, scrapes, prev>>

WriteFile ==
  /\ Serving
  /\ fsOps < MaxFsOps
  /\ \E d \in DOMAIN fs, f \in Names, st \in Stats :
       /\ f \in DOMAIN fs[d]
       /\ fs[d][f] # st
       /\ fs' = [fs EXCEPT ![d][f] = st]
  /\ fsOps' = fsOps + 1
  /\ UNCHANGED <<env, mainVars, collectorVars, gen, out, scrapes, prev>>

Main == MainCheckFile \/ MainConstruct \/ MainRegister \/ MainStartHttp \/ MainInterrupt

FileSystem == CreateFile \/ RemoveFile \/ WriteFile

\* scrapes one at a time
Next == Main \/ FileSystem \/ Collect(1)

Spec == Init /\ [][Next]_vars

\* main() alone, over every environment
SpecMain == Init /\ [][Main]_vars

\* the scrapes of a collector built from a configuration without flaw, one
\* at a time, while files change
ScrapeEnvs ==
  {e \in EnvsOf({TRUE},
               {[kind |-> "dict", conf |-> c] :
                  c \in {[locations |-> <<A_site>>],
                         [locations |-> <<B_rev, A_site>>, rewrite |-> Rewrite1]}}) :
     e.port_free}

InitScrape == InitWith(ScrapeEnvs)

SpecScrape == InitScrape /\ [][Next]_vars

\* two scrapes may overlap (the HTTP server handles each request in a
\* thread of its own); the folders do not change meanwhile
ConcEnvs ==
  {e \in EnvsOf({TRUE},
               {[kind |-> "dict",
                 conf |-> [locations |-> l, rewrite |-> Rewrite1]] :
                  l \in {<<A_site>>, <<B_rev>>}}) :
     e.port_free}

InitConc == InitWith(ConcEnvs)

NextConc == Main \/ Collect(1) \/ Collect(2)

SpecConc == InitConc /\ [][NextConc]_vars

\* ------------------------------------------------------------ the claims
\* what a scrape reported: its families with their data points
Summary(o) == {[name |-> f.name, samples |-> f.samples] : f \in Range(o)}

TotalSamples(o) ==
  LET RECURSIVE sum(_)
      sum(i) == IF i = 0 THEN 0 ELSE Len(o[i].samples) + sum(i - 1)
  IN  sum(Len(o))

LabelOf(labels, n) == (CHOOSE x \in Range(labels) : x[1] = n)[2]

FilepathsOf(o) ==
  {LabelOf(smp.labels, "filepath") : smp \in UNION {Range(f.samples) : f \in Range(o)}}

TagOf(tags, n) == (CHOOSE x \in tags : x[1] = n)[2]

Keys(tags) == {x[1] : x \in tags}

\* the location, format and match of the entry a generator is working on
CurName(t) == paths[G(t).li][1]
CurPath(t) == paths[G(t).li][2][1]
CurFormat(t) == paths[G(t).li][2][2]
CurGroups(t) == re_match(CurFormat(t), G(t).file).groups
HasEntry(t) ==
  G(t).pc \in {"test", "new_ts", "new_sz", "mtime", "size", "add_ts", "add_sz",
               "yield_ts", "yield_sz"}

\* the named groups of the current entry whose trimmed value is not empty
NonEmptyNamed(t) ==
  {n \in DOMAIN CurFormat(t).groupindex :
     strip(CurGroups(t)[CurFormat(t).groupindex[n]]) # <<>>}

\* C1: a collect() that ends while no file has changed since the previous
\* collect() began reports what the previous one reported: the same
\* families with the same data points.
C1_Idempotent ==
  \A t \in Threads :
    (G(t).pc = "done" /\ prev.valid /\ prev.epoch = fsOps)
      => Summary(out[t]) = Summary(prev.out)

\* what collect() yields for the folders as they are when nothing else has
\* touched the collector: per matching entry one timestamp family and one
\* size family, each with the entry's one data point
SoloSummary ==
  UNION {
    LET path_name == paths[i][1]
        path == paths[i][2][1]
        format == paths[i][2][2]
    IN  UNION {
          LET m == re_match(format, f)
              ft == frozen_tags_of(path_name, path, format,
                                   Min(UnnamedGroups(format)), f, m.groups, rewrites)
              ts == add_metric(NewFamily("backup_file_timestamp",
                                         "Backup file timestamp", ft),
                               ft, fs[path][f].mtime)
              sz == add_metric(NewFamily("backup_file_size", "Backup file size", ft),
                               ft, fs[path][f].size)
          IN  {[name |-> ts.name, samples |-> ts.samples],
               [name |-> sz.name, samples |-> sz.samples]}
          : f \in {g \in DOMAIN fs[path] : re_match(format, g).ok}}
    : i \in 1..Len(paths)}

\* C2: a collect() that overlaps another one (none has finished before it
\* ends) reports what it would report alone on the same folders.
C2_ConcurrentScrapesIsolated ==
  \A t \in Threads :
    (G(t).pc = "done" /\ ~prev.valid) => Summary(out[t]) = SoloSummary

\* C3: a failing stat never ends a collect() with an exception, and a
\* collect() never ends between the two samples of an entry.
C3_StatFailureSkipsEntry ==
  \A t \in Threads :
    /\ G(t).pc # "raised"
    /\ G(t).pc = "done" => Len(out[t]) % 2 = 0

\* C5: a collector that was constructed has an unnamed group in the format
\* of every location, and no collect() stops early for want of one.
C5_AllNamedFormatRejected ==
  /\ constructed =>
       \A i \in 1..Len(paths) : UnnamedGroups(paths[i][2][2]) # {}
  /\ \A t \in Threads : ~G(t).stopped

\* C6: the labels of a matched entry are location (the location's name),
\* file (the content group), filepath (path joined with the entry name) and
\* one label per named group whose trimmed value is not empty.
C6_LabelSet ==
  \A t \in Threads :
    HasEntry(t) =>
      LET tags == G(t).frozen_tags
      IN  /\ Keys(tags) = {"location", "file", "filepath"} \cup NonEmptyNamed(t)
          /\ Cardinality(tags) = 3 + Cardinality(NonEmptyNamed(t))
          /\ TagOf(tags, "location") = CurName(t)
          /\ TagOf(tags, "file") = CurGroups(t)[G(t).content_group_index]
          /\ TagOf(tags, "filepath") = path_join(CurPath(t), G(t).file)

\* C7: the label of a named group with trimmed value v is rewrite[tag][v]
\* when that entry exists and v otherwise; location, file and filepath are
\* never rewritten.
C7_Rewrite ==
  \A t \in Threads :
    HasEntry(t) =>
      LET tags == G(t).frozen_tags
      IN  /\ \A n \in NonEmptyNamed(t) :
               LET v == strip(CurGroups(t)[CurFormat(t).groupindex[n]])
               IN  /\ n \in Keys(tags)
                   /\ TagOf(tags, n) =
                        IF n \in DOMAIN rewrites /\ v \in DOMAIN rewrites[n]
                        THEN rewrites[n][v]
                        ELSE v
          /\ TagOf(tags, "location") = CurName(t)
          /\ TagOf(tags, "file") = CurGroups(t)[G(t).content_group_index]
          /\ TagOf(tags, "filepath") = path_join(CurPath(t), G(t).file)

\* C8: in every collect() each matched entry contributes two samples, one
\* of backup_file_timestamp and one of backup_file_size with the same
\* labels, and nothing else is reported.
C8_TwoSamplesPerEntry ==
  \A t \in Threads :
    G(t).pc = "done" =>
      /\ Len(out[t]) = 2 * Len(G(t).matched)
      /\ TotalSamples(out[t]) = 2 * Len(G(t).matched)
      /\ \A k \in 1..Len(G(t).matched) :
           /\ out[t][2 * k - 1].name = "backup_file_timestamp"
           /\ out[t][2 * k].name = "backup_file_size"
           /\ {smp.labels : smp \in Range(out[t][2 * k - 1].samples)}
                = {smp.labels : smp \in Range(out[t][2 * k].samples)}

\* C9: exit code 0 on an interrupt, 1 on a configuration error with its
\* message on standard error, 2 on any other error.
C9_ExitCodes ==
  mpc = "exited" =>
    CASE raised = "KeyboardInterrupt" -> exit.exit_code = 0
      [] raised = "ExporterError" -> exit.exit_code = 1 /\ Len(exit.stderr) = 1
      [] OTHER -> exit.exit_code = 2

\* the locations the configuration defines: none when the document is
\* empty or has no locations entry
LocationsOf(e) ==
  IF e.yaml.kind = "dict" /\ "locations" \in DOMAIN e.yaml.conf
  THEN e.yaml.conf.locations
  ELSE <<>>

\* the four flaws of a configuration, read off the environment: the file is
\* missing, no locations are defined (an empty document, a mapping without
\* locations, an empty locations table), a location lacks its path, a
\* location's path does not exist
ConfigFlawed ==
  \/ ~env.config_file_exists
  \/ /\ env.yaml.kind \in {"none", "dict"}
     /\ \/ LocationsOf(env) = <<>>
        \/ \E l \in Range(LocationsOf(env)) : "path" \notin DOMAIN l[2]
        \/ \E l \in Range(LocationsOf(env)) :
             "path" \in DOMAIN l[2] /\ l[2].path \notin DOMAIN fs

\* a location whose format does not compile comes before every flawed one:
\* line 96 raises for it before line 93 or 95 is reached for the others
BadFormatFirst ==
  /\ env.config_file_exists
  /\ \E i \in 1..Len(LocationsOf(env)) :
       /\ \A j \in 1..i :
            LET c == LocationsOf(env)[j][2]
            IN  "path" \in DOMAIN c /\ c.path \in DOMAIN fs
       /\ \A j \in 1..(i - 1) :
            LET c == LocationsOf(env)[j][2]
            IN  "format" \in DOMAIN c => Unbalanced \notin Range(c.format)
       /\ LET c == LocationsOf(env)[i][2]
          IN  "format" \in DOMAIN c /\ Unbalanced \in Range(c.format)

\* the file exists and is an empty document: yaml.load returns None
EmptyDocument == env.config_file_exists /\ env.yaml.kind = "none"

\* the exception a run with a flawed configuration ends in, unless it is
\* interrupted first
FlawedRunError ==
  IF EmptyDocument THEN "TypeError"
  ELSE IF BadFormatFirst THEN "re.error"
  ELSE "ExporterError"

C10_OnlyListedEntries ==
  \A t \in Threads :
    G(t).pc # "idle" => FilepathsOf(out[t]) \subseteq G(t).listed

\* an entry the previous collect() reported has been removed, its families
\* are still in the tables, and this collect() has ended without it
C10_Witness ==
  \E t \in Threads :
    /\ G(t).pc = "done"
    /\ out[t] # <<>>
    /\ prev.valid
    /\ \E fp \in FilepathsOf(prev.out) :
         /\ fp \notin FilepathsOf(out[t])
         /\ \A d \in DOMAIN fs : \A f \in DOMAIN fs[d] : path_join(d, f) # fp
         /\ \E k \in DOMAIN ts_metrics : TagOf(k, "filepath") = fp

====
